---- MODULE Spec2Model ----
(***************************************************************************)
(* Flight-Radar-CLI: model of the one-shot OpenSky scan (src/main.rs), of  *)
(* the lenient altitude decoding and the classification engine             *)
(* (src/models.rs) and of the operator resolution (src/models.rs, db.rs).  *)
(*                                                                         *)
(* f64 quantities (feet, knots) are modelled as integers; every comparison *)
(* of the code is kept with its strictness.  Text that the code builds or  *)
(* inspects character by character (reasons, callsigns) is a sequence of   *)
(* one-character strings; text that is only compared for equality is a     *)
(* TLA+ string.                                                            *)
(***************************************************************************)
EXTENDS Integers, Sequences, FiniteSets, TLC

VARIABLES
    pc,          \* position of the component under analysis
    exit,        \* main: how the process ended ("running" while it has not)
    cause,       \* main: what made main return an Err
    cli,         \* main: the parsed Args of src/main.rs (speed, country)
    resp_states, \* main: OpenSkyResponse.states
    flights,     \* main: Vec<StateVector>
    anomalies,   \* main: the filtered flights that were printed
    raw,         \* decode: the JSON object of one aircraft (alt_baro, alt_geom)
    ac,          \* the Aircraft record
    args,        \* the Args of src/models.rs
    reasons,     \* check_interest: the local Vec of reasons at return
    result,      \* check_interest: the returned Option<String>
    db,          \* DefenseDisplay::new: the AircraftDB
    display,     \* DefenseDisplay::new: the row that was built
    style        \* save_kml: the styleUrl chosen for the row

vars == <<pc, exit, cause, cli, resp_states, flights, anomalies,
          raw, ac, args, reasons, result, db, display, style>>

mainVars == <<exit, cause, cli, resp_states, flights, anomalies>>
decodeVars == <<raw>>
interestVars == <<args, reasons, result>>
displayVars == <<db, display>>
exportVars == <<style>>

(***************************************************************************)
(* Option<T> and serde_json::Value                                         *)
(***************************************************************************)
None == [some |-> FALSE]
Some(x) == [some |-> TRUE, v |-> x]
is_some(o) == o.some
unwrap_or(o, d) == IF o.some THEN o.v ELSE d

JNull == [t |-> "null"]
JNum(n) == [t |-> "number", n |-> n]
JStr(s) == [t |-> "string", s |-> s]
JBool(b) == [t |-> "bool", b |-> b]
JArr(a) == [t |-> "array", a |-> a]
JObj(o) == [t |-> "object", o |-> o]

as_str(v) == IF v.t = "string" THEN Some(v.s) ELSE None
as_f64(v) == IF v.t = "number" THEN Some(v.n) ELSE None
as_bool(v) == IF v.t = "bool" THEN Some(v.b) ELSE None

(***************************************************************************)
(* src/main.rs: StateVector and the one-shot scan                          *)
(***************************************************************************)
MaxStates == 2

MinStateLen == 10

DefaultSpeed == 300

\* from_values: fewer than 10 values rejects the entry; every field is then
\* read leniently (a non-string identifier becomes "").
from_values(values) ==
    IF Len(values) < MinStateLen
    THEN None
    ELSE Some([icao24 |-> unwrap_or(as_str(values[1]), ""),
               callsign |-> unwrap_or(as_str(values[2]), ""),
               origin_country |-> unwrap_or(as_str(values[3]), ""),
               longitude |-> as_f64(values[6]),
               latitude |-> as_f64(values[7]),
               on_ground |-> unwrap_or(as_bool(values[9]), FALSE),
               velocity |-> as_f64(values[10])])

is_anomaly(s, threshold_speed, target_country) ==
    IF unwrap_or(s.velocity, 0) > threshold_speed
    THEN TRUE
    ELSE s.origin_country = target_country

\* The raw state arrays of the feed: the 17-slot OpenSky shape, cut to len.
FullState(icao, country, vel) ==
    <<icao, JStr("RCH123"), JStr(country), JNull, JNum(0), JNum(13), JNum(52),
      JNum(9000), JBool(FALSE), vel, JNum(90), JNull, JNull, JNull, JNull,
      JBool(FALSE), JNum(0)>>

RawStates ==
    { SubSeq(FullState(icao, country, vel), 1, n) :
        icao \in {JStr("4b1814"), JNull},
        country \in {"Russian Federation", "Germany"},
        vel \in {JNum(350), JNull},
        n \in {MinStateLen - 1, MinStateLen} }

SeqsUpTo(S, n) == UNION { [1..k -> S] : k \in 0..n }

CliArgs == [speed : {DefaultSpeed}, country : {"Russian Federation", "Germany"}]

InitIdle ==
    /\ exit = "running" /\ cause = "none"
    /\ cli = None /\ resp_states = <<>> /\ flights = <<>> /\ anomalies = <<>>
    /\ raw = None /\ ac = None /\ args = None
    /\ reasons = <<>> /\ result = None
    /\ db = None /\ display = None /\ style = None

Init == pc = "main" /\ InitIdle

\* Args::parse(): clap ends the process on a usage error.
ParseArgs ==
    /\ pc = "main"
    /\ \/ \E a \in CliArgs : cli' = Some(a) /\ pc' = "send" /\ UNCHANGED <<exit, cause>>
       \/ cli' = cli /\ pc' = "exited" /\ exit' = "Usage" /\ cause' = "config"
    /\ UNCHANGED <<resp_states, flights, anomalies>>
    /\ UNCHANGED <<decodeVars, ac, interestVars, displayVars, exportVars>>

\* client.get(url).send().await? : a transport failure returns the Err from main.
Send ==
    /\ pc = "send"
    /\ \/ pc' = "json" /\ UNCHANGED <<exit, cause>>
       \/ pc' = "exited" /\ exit' = "Err" /\ cause' = "transport"
    /\ UNCHANGED <<cli, resp_states, flights, anomalies>>
    /\ UNCHANGED <<decodeVars, ac, interestVars, displayVars, exportVars>>

\* .json::<OpenSkyResponse>().await? : an undecodable body returns the Err too.
Json ==
    /\ pc = "json"
    /\ \/ \E s \in SeqsUpTo(RawStates, MaxStates) :
            resp_states' = s /\ pc' = "for" /\ UNCHANGED <<exit, cause>>
       \/ pc' = "exited" /\ exit' = "Err" /\ cause' = "decode" /\ UNCHANGED resp_states
    /\ UNCHANGED <<cli, flights, anomalies>>
    /\ UNCHANGED <<decodeVars, ac, interestVars, displayVars, exportVars>>

\* for raw_state in resp.states { if let Some(flight) = from_values(..) { push } }
ForState ==
    /\ pc = "for"
    /\ resp_states # <<>>
    /\ LET f == from_values(Head(resp_states)) IN
         flights' = IF is_some(f) THEN Append(flights, f.v) ELSE flights
    /\ resp_states' = Tail(resp_states)
    /\ UNCHANGED <<pc, exit, cause, cli, anomalies>>
    /\ UNCHANGED <<decodeVars, ac, interestVars, displayVars, exportVars>>

\* After the loop: filter the anomalies, print the table, return Ok(()).
Report ==
    /\ pc = "for"
    /\ resp_states = <<>>
    /\ anomalies' = SelectSeq(flights, LAMBDA f : is_anomaly(f, cli.v.speed, cli.v.country))
    /\ pc' = "exited" /\ exit' = "Ok"
    /\ UNCHANGED <<cause, cli, resp_states, flights>>
    /\ UNCHANGED <<decodeVars, ac, interestVars, displayVars, exportVars>>

Next == ParseArgs \/ Send \/ Json \/ ForState \/ Report

Spec == Init /\ [][Next]_vars

(***************************************************************************)
(* src/models.rs: lenient decoding of the altitude fields of an Aircraft   *)
(***************************************************************************)
\* parse_altitude: a number is taken, "ground" is 0.0, everything else None.
parse_altitude_zero(v) ==
    IF v.t = "number" THEN as_f64(v)
    ELSE IF v.t = "string" THEN Some(0)
    ELSE None

parse_altitude(v) ==
    IF v.t = "number" THEN as_f64(v)
    ELSE IF v.t = "string" /\ v.s = "ground" THEN Some(0)
    ELSE None

\* #[serde(deserialize_with = "parse_altitude", default)]: a field that is
\* missing from the object takes Option's default, None.
altitude_field(f) == IF is_some(f) THEN parse_altitude(f.v) ELSE None

AltitudeJson ==
    { JNum(0), JNum(500), JNum(35000), JStr("ground"), JStr("Ground"),
      JStr(""), JStr("1000"), JNull, JBool(TRUE), JBool(FALSE),
      JArr(<<>>), JArr(<<JNum(0)>>), JObj(<<JStr("ground")>>) }

RawAltitudeFields == {None} \cup { Some(v) : v \in AltitudeJson }

str_C172 == <<"C", "1", "7", "2">>
str_F35 == <<"F", "3", "5">>
str_B738 == <<"B", "7", "3", "8">>
str_F3 == <<"F", "3">>
str_RCH123 == <<"R", "C", "H", "1", "2", "3">>

\* The fields of Aircraft that the modelled code reads.
MkAircraft(icao, callsign, type_code, ground_speed, alt_baro, alt_geom, source_type, is_military) ==
    [icao |-> icao, callsign |-> callsign, type_code |-> type_code,
     ground_speed |-> ground_speed, alt_baro |-> alt_baro,
     alt_geom |-> alt_geom, source_type |-> source_type,
     is_military |-> is_military]

InitDecode ==
    /\ pc = "raw"
    /\ exit = "running" /\ cause = "none"
    /\ cli = None /\ resp_states = <<>> /\ flights = <<>> /\ anomalies = <<>>
    /\ \E b \in RawAltitudeFields, g \in RawAltitudeFields :
         raw = Some([alt_baro |-> b, alt_geom |-> g])
    /\ ac = None /\ args = None
    /\ reasons = <<>> /\ result = None
    /\ db = None /\ display = None /\ style = None

\* Deserialize for Aircraft, as far as the two altitude fields go.
Deserialize ==
    /\ pc = "raw"
    /\ ac' = Some(MkAircraft("4b1814", Some(str_RCH123), Some(str_C172), Some(600),
                             altitude_field(raw.v.alt_baro),
                             altitude_field(raw.v.alt_geom), "mlat", None))
    /\ pc' = "decoded"
    /\ UNCHANGED <<mainVars, decodeVars, interestVars, displayVars, exportVars>>

NextDecode == Deserialize

SpecDecode == InitDecode /\ [][NextDecode]_vars

(***************************************************************************)
(* src/models.rs: Aircraft::check_interest                                 *)
(***************************************************************************)
SpoofSpan == 1

DefaultSpoofDelta == 1000

LowAltitudeLimit == 25000

AbsoluteSpeedLimit == 550

Abs(x) == IF x < 0 THEN 0 - x ELSE x

DigitChars == <<"0", "1", "2", "3", "4", "5", "6", "7", "8", "9">>

RECURSIVE Digits(_)
Digits(n) ==
    IF n < 10 THEN <<DigitChars[n + 1]>>
    ELSE Digits(n \div 10) \o <<DigitChars[(n % 10) + 1]>>

\* format!("{:.0}", x) of a whole number
fmt0(x) == IF x < 0 THEN <<"-">> \o Digits(0 - x) ELSE Digits(x)

\* str::contains
Contains(s, sub) ==
    \E i \in 1..(Len(s) - Len(sub) + 1) : SubSeq(s, i, i + Len(sub) - 1) = sub

\* Vec::contains / slice::contains
VecContains(vec, x) == \E i \in 1..Len(vec) : vec[i] = x

RECURSIVE join(_, _)
join(rs, sep) ==
    IF rs = <<>> THEN <<>>
    ELSE IF Len(rs) = 1 THEN rs[1]
    ELSE rs[1] \o sep \o join(Tail(rs), sep)

NavPrefix == <<"N", "A", "V", " ", "A", "N", "O", "M", "A", "L", "Y", " ", "(", "Δ", " ">>
NavSuffix == <<"f", "t", ")">>
SpeedPrefix == <<"S", "p", "e", "e", "d", " ", "(">>
SpeedMid == <<" ", "k", "t", "s", " ", "@", " ">>
SpeedSuffix == <<" ", "f", "t", ")">>
MlatReason == <<"M", "L", "A", "T", " ", "a", "s", " ", "s", "o", "u", "r", "c", "e">>
HvtPrefix == <<"H", "V", "T", ":", " ">>
TargetReason == <<"T", "a", "r", "g", "e", "t", " ", "T", "y", "p", "e", " ", "M", "a", "t", "c", "h">>
MilReason == <<"M", "I", "L", " ", "F", "L", "A", "G">>
JoinSep == <<",", " ">>

boring_types ==
    <<<<"C", "1", "7", "2">>,
      <<"C", "1", "5", "2">>,
      <<"P", "2", "8", "A">>,
      <<"D", "A", "4", "0">>,
      <<"R", "4", "4">>,
      <<"G", "1", "1", "5">>>>

high_value ==
    <<<<"K", "3", "5", "R">>,
      <<"K", "4", "6">>,
      <<"A", "3", "3", "2">>,
      <<"E", "3", "T", "F">>,
      <<"C", "1", "7">>,
      <<"A", "4", "0", "0">>,
      <<"B", "5", "2">>,
      <<"B", "1">>,
      <<"B", "2">>,
      <<"E", "U", "F", "I">>,
      <<"F", "3", "5">>,
      <<"F", "1", "6">>,
      <<"F", "1", "8">>,
      <<"T", "O", "R", "N">>>>

\* 1. Hard filter: TRUE when check_interest returns None at once.
hard_filter_geom(a, g) ==
    is_some(g.max_alt) /\ unwrap_or(a.alt_geom, 0) > g.max_alt.v

hard_filter(a, g) ==
    is_some(g.max_alt) /\ unwrap_or(a.alt_baro, 0) > g.max_alt.v

\* Spoofing / jamming check
spoof_check_ge(rs, a, g) ==
    IF is_some(a.alt_baro) /\ is_some(a.alt_geom)
    THEN LET delta == Abs(a.alt_baro.v - a.alt_geom.v) IN
           IF delta >= g.spoof_delta
           THEN Append(rs, NavPrefix \o fmt0(delta) \o NavSuffix)
           ELSE rs
    ELSE rs

spoof_check(rs, a, g) ==
    IF is_some(a.alt_baro) /\ is_some(a.alt_geom)
    THEN LET delta == Abs(a.alt_baro.v - a.alt_geom.v) IN
           IF delta > g.spoof_delta
           THEN Append(rs, NavPrefix \o fmt0(delta) \o NavSuffix)
           ELSE rs
    ELSE rs

\* A. Speed and altitude
speed_check_or(rs, a, g) ==
    LET speed == unwrap_or(a.ground_speed, 0)
        alt == unwrap_or(a.alt_baro, 0)
    IN IF (alt < LowAltitudeLimit \/ speed > g.speed) \/ speed > AbsoluteSpeedLimit
       THEN Append(rs, SpeedPrefix \o fmt0(speed) \o SpeedMid \o fmt0(alt) \o SpeedSuffix)
       ELSE rs

speed_check(rs, a, g) ==
    LET speed == unwrap_or(a.ground_speed, 0)
        alt == unwrap_or(a.alt_baro, 0)
    IN IF (alt < LowAltitudeLimit /\ speed > g.speed) \/ speed > AbsoluteSpeedLimit
       THEN Append(rs, SpeedPrefix \o fmt0(speed) \o SpeedMid \o fmt0(alt) \o SpeedSuffix)
       ELSE rs

\* B. MLAT detection (ghost tracking)
mlat_check(rs, a) ==
    LET type_code == unwrap_or(a.type_code, <<>>) IN
      IF a.source_type = "mlat" /\ ~VecContains(boring_types, type_code)
      THEN Append(rs, MlatReason)
      ELSE rs

\* C. High value target, and the type the user searched for
hvt_check(rs, a, g) ==
    IF is_some(a.type_code)
    THEN LET t == a.type_code.v
             r1 == IF VecContains(high_value, t)
                   THEN Append(rs, HvtPrefix \o t) ELSE rs
         IN IF is_some(g.aircraft_type) /\ Contains(t, g.aircraft_type.v)
            THEN Append(r1, TargetReason)
            ELSE r1
    ELSE rs

\* D. Explicit military flag from the API
mil_check(rs, a) ==
    IF unwrap_or(a.is_military, FALSE) THEN Append(rs, MilReason) ELSE rs

finish(rs) ==
    [reasons |-> rs,
     result |-> IF rs = <<>> THEN None ELSE Some(join(rs, JoinSep))]

check_interest_hvt_first(a, g) ==
    IF hard_filter(a, g)
    THEN [reasons |-> <<>>, result |-> None]
    ELSE finish(mil_check(mlat_check(hvt_check(
             speed_check(spoof_check(<<>>, a, g), a, g), a, g), a), a))

check_interest(a, g) ==
    IF hard_filter(a, g)
    THEN [reasons |-> <<>>, result |-> None]
    ELSE finish(mil_check(hvt_check(mlat_check(
             speed_check(spoof_check(<<>>, a, g), a, g), a), a, g), a))

\* The inputs: altitudes around the max_alt, the 25000 ft and the spoof-delta
\* boundaries, speeds around the configured and the absolute threshold.
BaroInputs == {None, Some(500), Some(20000), Some(20001), Some(24999), Some(25000)}

GeomInputs(baro) ==
    {None}
    \cup { Some(unwrap_or(baro, 0) - (DefaultSpoofDelta + j)) : j \in (0 - SpoofSpan)..SpoofSpan }
    \cup { Some(unwrap_or(baro, 0) + DefaultSpoofDelta + SpoofSpan) }

SpeedInputs ==
    {None, Some(DefaultSpeed), Some(DefaultSpeed + 1),
     Some(AbsoluteSpeedLimit), Some(AbsoluteSpeedLimit + 1)}

TypeInputs == {None, Some(str_C172), Some(str_F35), Some(str_B738)}

ArgsInputs ==
    [speed : {0 - 1, 0, DefaultSpeed},
     aircraft_type : {None, Some(str_F3)},
     spoof_delta : {DefaultSpoofDelta},
     min_alt : {None, Some(1000)},
     max_alt : {None, Some(20000)}]

InitInterest ==
    /\ pc = "aircraft"
    /\ exit = "running" /\ cause = "none"
    /\ cli = None /\ resp_states = <<>> /\ flights = <<>> /\ anomalies = <<>>
    /\ raw = None
    /\ \E b \in BaroInputs, s \in SpeedInputs, t \in TypeInputs,
          src \in {"adsb", "mlat"}, m \in {None, Some(TRUE), Some(FALSE)} :
         \E ge \in GeomInputs(b) :
           ac = Some(MkAircraft("4b1814", Some(str_RCH123), t, s, b, ge, src, m))
    /\ args \in { Some(g) : g \in ArgsInputs }
    /\ reasons = <<>> /\ result = None
    /\ db = None /\ display = None /\ style = None

CheckInterest ==
    /\ pc = "aircraft"
    /\ LET r == check_interest(ac.v, args.v) IN
         /\ reasons' = r.reasons
         /\ result' = r.result
    /\ pc' = "checked"
    /\ UNCHANGED <<mainVars, decodeVars, ac, args, displayVars, exportVars>>

NextInterest == CheckInterest

SpecInterest == InitInterest /\ [][NextInterest]_vars

(***************************************************************************)
(* src/models.rs, src/db.rs: operator resolution of DefenseDisplay::new    *)
(***************************************************************************)
LowerCase == <<"a", "b", "c", "d", "e", "f", "g", "h", "i", "j", "k", "l", "m", "n", "o", "p", "q", "r", "s",
      "t", "u", "v", "w", "x", "y", "z">>

UpperCase == <<"A", "B", "C", "D", "E", "F", "G", "H", "I", "J", "K", "L", "M", "N", "O", "P", "Q", "R", "S",
      "T", "U", "V", "W", "X", "Y", "Z">>

\* char::to_uppercase on the letters a feed callsign is made of
upper_char(c) ==
    IF \E i \in 1..Len(LowerCase) : LowerCase[i] = c
    THEN UpperCase[CHOOSE i \in 1..Len(LowerCase) : LowerCase[i] = c]
    ELSE c

to_uppercase(s) == [i \in 1..Len(s) |-> upper_char(s[i])]

\* str::starts_with
starts_with(s, prefix) ==
    Len(prefix) <= Len(s) /\ SubSeq(s, 1, Len(prefix)) = prefix

str_Unknown == <<"U", "n", "k", "n", "o", "w", "n">>
str_unknown_lc == <<"u", "n", "k", "n", "o", "w", "n">>
str_AMC == <<"U", "S", " ", "A", "i", "r", " ", "F", "o", "r", "c", "e", " ", "(", "A", "M", "C", ")">>
str_Lufthansa == <<"L", "u", "f", "t", "h", "a", "n", "s", "a">>
str_qqq == <<"?", "?", "?">>
str_dash == <<"-">>

\* The chain of `if cs.starts_with(..) { return Some(..) }`, in its order.
callsign_table ==
    <<<<<<"R", "C", "H">>,
        <<"U", "S", " ", "A", "i", "r", " ", "F", "o", "r", "c", "e", " ", "(", "A", "M", "C", ")">>>>,
      <<<<"R", "R", "R">>,
        <<"R", "o", "y", "a", "l", " ", "A", "i", "r", " ", "F", "o", "r", "c", "e">>>>,
      <<<<"R", "R", "F">>,
        <<"R", "o", "y", "a", "l", " ", "A", "i", "r", " ", "F", "o", "r", "c", "e">>>>,
      <<<<"N", "A", "T", "O">>,
        <<"N", "A", "T", "O", " ", "E", "-", "3", "A", " ", "C", "o", "m", "p", "o", "n", "e", "n", "t">>>>,
      <<<<"C", "N", "V">>,
        <<"U", "S", " ", "N", "a", "v", "y">>>>,
      <<<<"G", "A", "F">>,
        <<"G", "e", "r", "m", "a", "n", " ", "A", "i", "r", " ", "F", "o", "r", "c", "e">>>>,
      <<<<"I", "A", "M">>,
        <<"I", "t", "a", "l", "i", "a", "n", " ", "A", "i", "r", " ", "F", "o", "r", "c", "e">>>>,
      <<<<"F", "A", "F">>,
        <<"F", "r", "e", "n", "c", "h", " ", "A", "i", "r", " ", "F", "o", "r", "c", "e">>>>,
      <<<<"S", "U", "I">>,
        <<"S", "w", "i", "s", "s", " ", "A", "i", "r", " ", "F", "o", "r", "c", "e">>>>,
      <<<<"T", "U", "A", "F">>,
        <<"T", "u", "r", "k", "i", "s", "h", " ", "A", "i", "r", " ", "F", "o", "r", "c", "e">>>>,
      <<<<"D", "L", "H">>,
        <<"L", "u", "f", "t", "h", "a", "n", "s", "a">>>>,
      <<<<"R", "Y", "R">>,
        <<"R", "y", "a", "n", "a", "i", "r">>>>,
      <<<<"E", "Z", "Y">>,
        <<"E", "a", "s", "y", "J", "e", "t">>>>,
      <<<<"B", "A", "W">>,
        <<"B", "r", "i", "t", "i", "s", "h", " ", "A", "i", "r", "w", "a", "y", "s">>>>,
      <<<<"A", "F", "R">>,
        <<"A", "i", "r", " ", "F", "r", "a", "n", "c", "e">>>>,
      <<<<"K", "L", "M">>,
        <<"K", "L", "M", " ", "R", "o", "y", "a", "l", " ", "D", "u", "t", "c", "h", " ", "A", "i", "r", "l", "i", "n", "e", "s">>>>,
      <<<<"S", "A", "S">>,
        <<"S", "c", "a", "n", "d", "i", "n", "a", "v", "i", "a", "n", " ", "A", "i", "r", "l", "i", "n", "e", "s">>>>,
      <<<<"S", "V", "A">>,
        <<"S", "a", "u", "d", "i", "a">>>>,
      <<<<"U", "A", "E">>,
        <<"E", "m", "i", "r", "a", "t", "e", "s">>>>,
      <<<<"Q", "T", "R">>,
        <<"Q", "a", "t", "a", "r", " ", "A", "i", "r", "w", "a", "y", "s">>>>>>

RECURSIVE first_prefix(_, _)
first_prefix(cs, i) ==
    IF i > Len(callsign_table) THEN None
    ELSE IF starts_with(cs, callsign_table[i][1]) THEN Some(callsign_table[i][2])
    ELSE first_prefix(cs, i + 1)

resolve_operator_by_callsign(callsign) == first_prefix(to_uppercase(callsign), 1)

\* AircraftDB = HashMap<String, AircraftInfo>: a function from the ICAO keys.
db_get(d, icao) == IF icao \in DOMAIN d THEN Some(d[icao]) ELSE None

\* The operator lookup of DefenseDisplay::new.
display_operator_guess_first(a, d) ==
    LET callsign == unwrap_or(a.callsign, <<>>)
        info == db_get(d, a.icao)
        looked_up == IF is_some(info) THEN unwrap_or(info.v.operator, str_Unknown)
                     ELSE str_Unknown
        guessed_op == resolve_operator_by_callsign(callsign)
    IN IF is_some(guessed_op) THEN guessed_op.v ELSE looked_up

display_operator(a, d) ==
    LET callsign == unwrap_or(a.callsign, <<>>)
        info == db_get(d, a.icao)
        looked_up == IF is_some(info) THEN unwrap_or(info.v.operator, str_Unknown)
                     ELSE str_Unknown
    IN IF looked_up = str_Unknown \/ looked_up = <<>>
       THEN LET guessed_op == resolve_operator_by_callsign(callsign) IN
              IF is_some(guessed_op) THEN guessed_op.v ELSE looked_up
       ELSE looked_up

DefenseDisplay_new(a, reason, d) ==
    [icao |-> a.icao,
     type_code |-> unwrap_or(a.type_code, str_qqq),
     operator |-> display_operator(a, d),
     callsign |-> unwrap_or(a.callsign, <<>>),
     speed |-> unwrap_or(a.ground_speed, 0),
     alt |-> unwrap_or(a.alt_baro, 0),
     delta |-> IF is_some(a.alt_baro) /\ is_some(a.alt_geom)
               THEN fmt0(Abs(a.alt_baro.v - a.alt_geom.v))
               ELSE str_dash,
     source |-> a.source_type,
     reason |-> reason]

CallsignInputs ==
    {None, Some(<<>>), Some(str_RCH123), Some(<<"r", "c", "h", "1", "2", "3">>),
     Some(<<"X", "Y", "Z", "9", "9">>), Some(<<"D", "L", "H", "4", "A", "B">>),
     Some(<<" ", "R", "C", "H", "1">>), Some(<<"T", "U", "A", "F">>),
     Some(<<"Q", "T", "R", "7">>), Some(<<"R", "C">>)}

OperatorInputs ==
    {None, Some(<<>>), Some(<<" ">>), Some(str_Unknown), Some(str_unknown_lc),
     Some(str_Lufthansa), Some(str_AMC)}

AircraftInfo(icao, operator) == [icao |-> icao, operator |-> operator]

DbInputs ==
    {<<>>}
    \cup { [k \in {"4b1814"} |-> AircraftInfo(k, op)] : op \in OperatorInputs }
    \cup { [k \in {"3c6444"} |-> AircraftInfo(k, op)] : op \in {Some(str_Lufthansa)} }

InitDisplay ==
    /\ pc = "flagged"
    /\ exit = "running" /\ cause = "none"
    /\ cli = None /\ resp_states = <<>> /\ flights = <<>> /\ anomalies = <<>>
    /\ raw = None
    /\ \E c \in CallsignInputs, t \in {None, Some(str_F35)},
          b \in {None, Some(500)}, ge \in {None, Some(1600)} :
         ac = Some(MkAircraft("4b1814", c, t, Some(600), b, ge, "adsb", Some(TRUE)))
    /\ args = None
    /\ reasons = <<MilReason>> /\ result = Some(MilReason)
    /\ db \in { Some(d) : d \in DbInputs }
    /\ display = None /\ style = None

NewDisplay ==
    /\ pc = "flagged"
    /\ display' = Some(DefenseDisplay_new(ac.v, result.v, db.v))
    /\ pc' = "shown"
    /\ UNCHANGED <<mainVars, decodeVars, ac, interestVars, db, exportVars>>

NextDisplay == NewDisplay

SpecDisplay == InitDisplay /\ [][NextDisplay]_vars

(***************************************************************************)
(* src/kml.rs: the style of a placemark in save_kml                        *)
(***************************************************************************)
str_HVT == <<"H", "V", "T">>
str_MIL == <<"M", "I", "L">>
str_Country == <<"C", "o", "u", "n", "t", "r", "y">>
str_NAV == <<"N", "A", "V">>

\* Logic for color/style: red, then yellow, then white.
style_of_nav_first(reason) ==
    IF Contains(reason, str_NAV) THEN "#style_warn"
    ELSE IF Contains(reason, str_HVT) \/ Contains(reason, str_MIL)
            \/ Contains(reason, str_Country)
    THEN "#style_mil"
    ELSE "#style_norm"

style_of(reason) ==
    IF Contains(reason, str_HVT) \/ Contains(reason, str_MIL)
       \/ Contains(reason, str_Country)
    THEN "#style_mil"
    ELSE IF Contains(reason, str_NAV) THEN "#style_warn"
    ELSE "#style_norm"

\* The flagged aircraft of check_interest, on an empty reference table
\* (aircraft_db.csv not found).
InitExport ==
    /\ pc = "aircraft"
    /\ exit = "running" /\ cause = "none"
    /\ cli = None /\ resp_states = <<>> /\ flights = <<>> /\ anomalies = <<>>
    /\ raw = None
    /\ \E b \in BaroInputs, s \in SpeedInputs, t \in TypeInputs,
          src \in {"adsb", "mlat"}, m \in {None, Some(TRUE), Some(FALSE)} :
         \E ge \in GeomInputs(b) :
           ac = Some(MkAircraft("4b1814", Some(str_RCH123), t, s, b, ge, src, m))
    /\ args \in { Some(g) : g \in ArgsInputs }
    /\ reasons = <<>> /\ result = None
    /\ db = Some(<<>>) /\ display = None /\ style = None

\* One turn of `for plane in anomalies`: the row is the DefenseDisplay built
\* from the aircraft and its reason, the style is read off plane.reason.
SaveKml ==
    /\ pc = "checked"
    /\ is_some(result)
    /\ LET plane == DefenseDisplay_new(ac.v, result.v, db.v) IN
         /\ display' = Some(plane)
         /\ style' = Some(style_of(plane.reason))
    /\ pc' = "exported"
    /\ UNCHANGED <<mainVars, decodeVars, ac, interestVars, db>>

NextExport == CheckInterest \/ SaveKml

SpecExport == InitExport /\ [][NextExport]_vars

(***************************************************************************)
(* Properties                                                              *)
(***************************************************************************)
Checked == pc = "checked"

\* the altitude the hard filters are stated on: alt_baro, 0 when absent
EffectiveAltitude == IF ac.v.alt_baro.some THEN ac.v.alt_baro.v ELSE 0

AboveMaxAlt == args.v.max_alt.some /\ EffectiveAltitude > args.v.max_alt.v

BelowMinAlt == args.v.min_alt.some /\ EffectiveAltitude < args.v.min_alt.v

ResultMentions(text) == result.some /\ Contains(result.v, text)

BothAltitudes == ac.v.alt_baro.some /\ ac.v.alt_geom.some

AltitudeDelta == Abs(ac.v.alt_baro.v - ac.v.alt_geom.v)

\* C1: a transport failure or an undecodable body never ends the process.
C1_TransientFailureDoesNotExit ==
    cause \in {"transport", "decode"} => pc # "exited"

\* C2: with max_alt set and the effective altitude above it, check_interest
\* returns None, whatever else would have fired; never Some of an empty text.
C2_MaxAltExcludes ==
    Checked =>
        /\ AboveMaxAlt => (result = None /\ reasons = <<>>)
        /\ result.some => result.v # <<>>

C2_Witness ==
    /\ Checked /\ AboveMaxAlt
    /\ ac.v.is_military = Some(TRUE) /\ ac.v.source_type = "mlat"
    /\ ac.v.type_code = Some(str_F35)
    /\ ac.v.ground_speed = Some(AbsoluteSpeedLimit + 1)
    /\ result = None

\* C3: with min_alt set and the effective altitude below it, check_interest
\* returns None regardless of other triggers.
C3_MinAltExcludes ==
    (Checked /\ BelowMinAlt) => result = None

\* C4 as stated: with both altitudes present the NAV ANOMALY reason is in the
\* result iff |alt_baro - alt_geom| > spoof_delta; with one absent, never.
C4_SpoofIffDelta ==
    Checked =>
        /\ BothAltitudes =>
             (ResultMentions(NavPrefix) <=> AltitudeDelta > args.v.spoof_delta)
        /\ ~BothAltitudes => ~ResultMentions(NavPrefix)

\* C4 amended: the equivalence holds for every aircraft that the max_alt
\* hard filter does not exclude; an excluded one carries no reason at all.
C4_SpoofIffDeltaUnlessExcluded ==
    Checked =>
        /\ (BothAltitudes /\ ~AboveMaxAlt) =>
             (ResultMentions(NavPrefix) <=> AltitudeDelta > args.v.spoof_delta)
        /\ (~BothAltitudes \/ AboveMaxAlt) => ~ResultMentions(NavPrefix)

C4_Witness ==
    /\ Checked /\ BothAltitudes /\ ~AboveMaxAlt
    /\ AltitudeDelta = args.v.spoof_delta + 1
    /\ ResultMentions(NavPrefix \o fmt0(AltitudeDelta) \o NavSuffix)

\* C5 as stated: an aircraft without ground speed never gets the Speed
\* reason, for any configuration.
C5_AbsentSpeedNeverFires ==
    (Checked /\ ~ac.v.ground_speed.some) => ~ResultMentions(SpeedPrefix)

\* C5 amended: an aircraft without ground speed never gets the Speed reason
\* when the configured speed threshold is not negative.
C5_AbsentSpeedNeverFiresNonNegative ==
    (Checked /\ ~ac.v.ground_speed.some /\ args.v.speed >= 0)
        => ~ResultMentions(SpeedPrefix)

C5_Witness ==
    /\ Checked /\ ~ac.v.ground_speed.some /\ args.v.speed >= 0
    /\ EffectiveAltitude < LowAltitudeLimit /\ ~AboveMaxAlt
    /\ result.some

\* C6: Some exactly when a trigger fired; the reasons come in the order NAV
\* anomaly, speed, MLAT, HVT, type match, military flag, each at most once.
TriggerOrder == <<"nav", "speed", "mlat", "hvt", "target", "mil">>

TriggerFires(k) ==
    LET speed == IF ac.v.ground_speed.some THEN ac.v.ground_speed.v ELSE 0
        t == ac.v.type_code
    IN CASE k = "nav" -> BothAltitudes /\ AltitudeDelta > args.v.spoof_delta
         [] k = "speed" -> \/ EffectiveAltitude < LowAltitudeLimit /\ speed > args.v.speed
                           \/ speed > AbsoluteSpeedLimit
         [] k = "mlat" -> /\ ac.v.source_type = "mlat"
                          /\ ~(t.some /\ \E i \in 1..Len(boring_types) : boring_types[i] = t.v)
         [] k = "hvt" -> t.some /\ \E i \in 1..Len(high_value) : high_value[i] = t.v
         [] k = "target" -> /\ t.some /\ args.v.aircraft_type.some
                            /\ Contains(t.v, args.v.aircraft_type.v)
         [] k = "mil" -> ac.v.is_military = Some(TRUE)

ReasonKind(r) ==
    IF starts_with(r, NavPrefix) THEN "nav"
    ELSE IF starts_with(r, SpeedPrefix) THEN "speed"
    ELSE IF r = MlatReason THEN "mlat"
    ELSE IF starts_with(r, HvtPrefix) THEN "hvt"
    ELSE IF r = TargetReason THEN "target"
    ELSE IF r = MilReason THEN "mil"
    ELSE "other"

FiredInOrder == SelectSeq(TriggerOrder, LAMBDA k : ~AboveMaxAlt /\ TriggerFires(k))

C6_ReasonsInEvaluationOrder ==
    Checked =>
        /\ [i \in 1..Len(reasons) |-> ReasonKind(reasons[i])] = FiredInOrder
        /\ result.some <=> FiredInOrder # <<>>
        /\ result.some => result.v = join(reasons, JoinSep)

C6_Witness ==
    /\ Checked
    /\ FiredInOrder = TriggerOrder
    /\ Len(reasons) = Len(TriggerOrder)

\* C9: a number yields that number, "ground" yields 0.0, every other value
\* and a missing field yield absent.
ExpectedAltitude(f) ==
    IF ~f.some THEN None
    ELSE IF f.v.t = "number" THEN Some(f.v.n)
    ELSE IF f.v = JStr("ground") THEN Some(0)
    ELSE None

C9_AltitudeParsing ==
    pc = "decoded" =>
        /\ ac.v.alt_baro = ExpectedAltitude(raw.v.alt_baro)
        /\ ac.v.alt_geom = ExpectedAltitude(raw.v.alt_geom)

C9_Witness ==
    /\ pc = "decoded"
    /\ raw.v.alt_baro = Some(JStr("ground")) /\ ac.v.alt_baro = Some(0)
    /\ raw.v.alt_geom = Some(JStr("Ground")) /\ ac.v.alt_geom = None

\* C10: the MLAT reason is emitted iff the aircraft passed the hard filters
\* (max_alt and min_alt), its source is "mlat" and its type is not boring.
PassedHardFilters == ~AboveMaxAlt /\ ~BelowMinAlt

C10_MlatIffGhost ==
    Checked =>
        (ResultMentions(MlatReason) <=> (PassedHardFilters /\ TriggerFires("mlat")))

\* C7, C8: the reference table entry of the aircraft on display
Shown == pc = "shown"

InTable == ac.v.icao \in DOMAIN db.v

TableOperator == db.v[ac.v.icao].operator

IsBlank(s) == \A i \in 1..Len(s) : s[i] = " "

HasTableOperator == InTable /\ TableOperator.some /\ ~IsBlank(TableOperator.v)

RowCallsign == IF ac.v.callsign.some THEN ac.v.callsign.v ELSE <<>>

PrefixMatches ==
    \E i \in 1..Len(callsign_table) :
        starts_with(to_uppercase(RowCallsign), callsign_table[i][1])

C8_UnknownFallback ==
    (Shown /\ ~HasTableOperator /\ ~PrefixMatches) => display.v.operator = str_Unknown

\* C11: the export style follows from the reason text in three tiers:
\* critical for a high-value target, a military flag or a country match,
\* otherwise warning for the navigation anomaly, otherwise informational;
\* every reason check_interest produces gets exactly one of the three.
Exported == pc = "exported"

Fired(k) == \E i \in 1..Len(FiredInOrder) : FiredInOrder[i] = k

ExpectedStyle ==
    IF Fired("hvt") \/ Fired("mil") THEN "#style_mil"
    ELSE IF Fired("nav") THEN "#style_warn"
    ELSE "#style_norm"

C11_StyleTiers ==
    Exported =>
        /\ display.v.reason = result.v
        /\ style.v \in {"#style_mil", "#style_warn", "#style_norm"}
        /\ style.v = ExpectedStyle

C11_Witness ==
    /\ Exported
    /\ Fired("nav") /\ Fired("mil") /\ ~Fired("hvt")
    /\ style = Some("#style_mil")

\* C12: a raw entry without identifier, or shorter than the required array
\* shape, is left out of the batch, raises no error and the loop goes on
\* with the remaining entries.
Malformed(values) ==
    \/ Len(values) < MinStateLen
    \/ Len(values) >= 1 /\ values[1].t # "string"

C12_MalformedEntriesRejected ==
    [][(pc = "for" /\ resp_states # <<>> /\ Malformed(Head(resp_states)))
          => /\ flights' = flights
             /\ resp_states' = Tail(resp_states)
             /\ pc' = "for" /\ exit' = "running"]_vars

====
